---- MODULE Spec2Model ----
(***************************************************************************)
(* Model of pdf2epub3: the streaming HTML assembler (core/html_builder.py), *)
(* the EPUB builder (core/epub_builder.py), the conversion pipeline        *)
(* (main.py, core/page_parser.py), the paragraph splitter                  *)
(* (core/image_splitter.py) and the live preview and its file server       *)
(* (ui/app.py).                                                            *)
(***************************************************************************)
EXTENDS Integers, Sequences, FiniteSets, TLC

\* ------------------------------------------------------------------ bounds
MaxOps == 3
MaxPageNo == 2
MaxPages == 2
MaxLines == 3
MaxPathLen == 3

VARIABLES
    streaming,        \* HTMLBuilder._streaming
    output_path,      \* HTMLBuilder._output_path is not None
    pages,            \* HTMLBuilder._pages
    file_handle,      \* HTMLBuilder._file_handle is an open handle
    header_written,   \* HTMLBuilder._header_written
    current_page,     \* HTMLBuilder._current_page (0 models None)
    buffer,           \* data written to the handle and not yet flushed
    disk,             \* content of the output file (the backing store)
    exists,           \* the output file exists
    calls,            \* history of the calls made on the builder
    before,           \* the builder as it was when the last call was made
    run,              \* PDFToEPUBPipeline.run: position and locals
    split,            \* ImageSplitter.split_into_lines: position and locals
    epub,             \* EPUBBuilder: _chapters and the book written by build
    validator,        \* _ensure_non_empty_pages: its argument and its results
    server            \* CustomHTTPRequestHandler: a request and its response

builderVars == <<streaming, output_path, pages, file_handle, header_written,
                 current_page, buffer, disk, exists>>

\* ------------------------------------------------------------- data model
TextBlock(content) == [kind |-> "text", content |-> content]
FormulaBlock(content) == [kind |-> "formula", content |-> content]
PageContent(page_number, blocks) == [page_number |-> page_number, blocks |-> blocks]

\* Output units. One token stands for one fixed piece of markup.
Tok(t, n, text) == [t |-> t, n |-> n, text |-> text]
HeaderTok == Tok("header", 0, <<>>)
FooterTok == Tok("footer", 0, <<>>)
PageStartTok(n) == Tok("page_start", n, <<>>)
PageEndTok == Tok("page_end", 0, <<>>)
ParagraphTok(text) == Tok("p", 0, text)
FormulaTok(text) == Tok("formula", 0, text)
PlaceholderTok == Tok("placeholder", 0, <<>>)
Count(t, toks) == Cardinality({i \in DOMAIN toks : toks[i].t = t})

NoContentText == <<"(no content)">>

\* ------------------------------------------------------------ str helpers
Whitespace == {" ", "\n", "\t"}

RECURSIVE lstrip(_)
lstrip(s) ==
    IF s = <<>> THEN <<>>
    ELSE IF Head(s) \in Whitespace THEN lstrip(Tail(s)) ELSE s

RECURSIVE rstrip(_)
rstrip(s) ==
    IF s = <<>> THEN <<>>
    ELSE IF s[Len(s)] \in Whitespace THEN rstrip(SubSeq(s, 1, Len(s) - 1)) ELSE s

strip(s) == rstrip(lstrip(s))

\* str.split('\n\n'): cut at each non-overlapping double newline, left to right
RECURSIVE split_paragraphs(_)
split_paragraphs(s) ==
    LET cuts == {i \in 1..(Len(s) - 1) : s[i] = "\n" /\ s[i + 1] = "\n"}
    IN  IF cuts = {} THEN <<s>>
        ELSE LET i == CHOOSE c \in cuts : \A d \in cuts : c <= d
             IN  <<SubSeq(s, 1, i - 1)>> \o split_paragraphs(SubSeq(s, i + 2, Len(s)))

\* ' '.join(para.split('\n'))
join_lines(s) == [i \in 1..Len(s) |-> IF s[i] = "\n" THEN " " ELSE s[i]]

escape_html(text) ==
    [i \in 1..Len(text) |->
        CASE text[i] = "&" -> "&amp;"
          [] text[i] = "<" -> "&lt;"
          [] text[i] = ">" -> "&gt;"
          [] text[i] = "\"" -> "&quot;"
          [] text[i] = "'" -> "&#39;"
          [] OTHER -> text[i]]

\* ---------------------------------------------------------- file handle
File(b) == [handle |-> b.file_handle, buffer |-> b.buffer, disk |-> b.disk,
            exists |-> b.exists]
WithFile(b, f) == [b EXCEPT !.file_handle = f.handle, !.buffer = f.buffer,
                            !.disk = f.disk, !.exists = f.exists]

\* open(path, 'w'): creates or truncates the file
open_w(f) == [handle |-> TRUE, buffer |-> <<>>, disk |-> <<>>, exists |-> TRUE]
write(f, toks) == [f EXCEPT !.buffer = @ \o toks]
\* mutant: written data stays in the handle's buffer
flush_forgotten(f) == f

flush(f) == [f EXCEPT !.disk = @ \o f.buffer, !.buffer = <<>>]
close(f) == [flush(f) EXCEPT !.handle = FALSE]
\* Path.write_text: creates or replaces the file with the whole content
write_text(f, toks) == [f EXCEPT !.disk = toks, !.exists = TRUE]

\* ------------------------------------------------------------ HTMLBuilder
NewBuilder(s, p) ==
    [streaming |-> s, output_path |-> p, pages |-> <<>>, file_handle |-> FALSE,
     header_written |-> FALSE, current_page |-> 0,
     buffer |-> <<>>, disk |-> <<>>, exists |-> FALSE]

render_block(block) ==
    LET text == strip(block.content)
    IN  IF text = <<>> THEN <<>>
        ELSE IF block.kind = "text" THEN <<ParagraphTok(escape_html(text))>>
        ELSE <<FormulaTok(escape_html(text))>>

RECURSIVE render_paragraphs(_)
render_paragraphs(paras) ==
    IF paras = <<>> THEN <<>>
    ELSE LET para == strip(Head(paras))
         IN  (IF para = <<>> THEN <<>>
              ELSE <<ParagraphTok(escape_html(join_lines(para)))>>)
             \o render_paragraphs(Tail(paras))

render_page_block(block) ==
    LET text == strip(block.content)
    IN  IF text = <<>> THEN <<>>
        ELSE IF block.kind = "text" THEN render_paragraphs(split_paragraphs(text))
        ELSE <<FormulaTok(escape_html(text))>>

RECURSIVE render_body(_)
render_body(blocks) ==
    IF blocks = <<>> THEN <<>>
    ELSE render_page_block(Head(blocks)) \o render_body(Tail(blocks))

page_placeholder(body_parts) ==
    IF body_parts = <<>> THEN <<PlaceholderTok>> ELSE body_parts

render_page(page) ==
    <<PageStartTok(page.page_number)>>
    \o page_placeholder(render_body(page.blocks))
    \o <<PageEndTok>>

write_header(b) ==
    IF ~b.output_path THEN b
    ELSE WithFile(b, flush(write(open_w(File(b)), <<HeaderTok>>)))

\* mutant: the header flag is tested the wrong way round
ensure_header_inverted(b) ==
    IF b.header_written THEN [write_header(b) EXCEPT !.header_written = TRUE]
    ELSE b

ensure_header(b) ==
    IF ~b.header_written THEN [write_header(b) EXCEPT !.header_written = TRUE]
    ELSE b

write_page_streaming(b, page) ==
    LET b1 == ensure_header(b)
    IN  IF b1.file_handle
        THEN WithFile(b1, flush(write(File(b1), render_page(page))))
        ELSE b1

\* mutant: the page is written at once whenever a path is known
add_page_writes_always(b, page) ==
    LET b1 == [b EXCEPT !.pages = Append(@, page)]
    IN  IF b1.output_path THEN write_page_streaming(b1, page) ELSE b1

add_page(b, page) ==
    LET b1 == [b EXCEPT !.pages = Append(@, page)]
    IN  IF b1.streaming /\ b1.output_path THEN write_page_streaming(b1, page)
        ELSE b1

\* mutant: the open page section is never closed
close_page_skipped(b) == b

close_page(b) ==
    IF b.current_page # 0 /\ b.file_handle
    THEN WithFile(b, flush(write(File(b), <<PageEndTok>>)))
    ELSE b

open_page(b, page_number) ==
    LET b1 == [b EXCEPT !.current_page = page_number]
    IN  IF b1.file_handle
        THEN WithFile(b1, flush(write(File(b1), <<PageStartTok(page_number)>>)))
        ELSE b1

write_block(b, block) ==
    IF b.file_handle
    THEN WithFile(b, flush(write(File(b), render_block(block))))
    ELSE b

\* mutant: a new section is opened only for a higher page number
add_block_monotonic(b, block, page_number) ==
    IF ~b.streaming \/ ~b.output_path THEN b
    ELSE LET b1 == ensure_header(b)
             b2 == IF b1.current_page < page_number
                   THEN open_page(close_page(b1), page_number)
                   ELSE b1
         IN  write_block(b2, block)

\* mutant: the block that starts a page section is not written
add_block_loses_first(b, block, page_number) ==
    IF ~b.streaming \/ ~b.output_path THEN b
    ELSE LET b1 == ensure_header(b)
         IN  IF b1.current_page # page_number
             THEN open_page(close_page(b1), page_number)
             ELSE write_block(b1, block)

add_block(b, block, page_number) ==
    IF ~b.streaming \/ ~b.output_path THEN b
    ELSE LET b1 == ensure_header(b)
             b2 == IF b1.current_page # page_number
                   THEN open_page(close_page(b1), page_number)
                   ELSE b1
         IN  write_block(b2, block)

write_footer(b) ==
    IF b.file_handle
    THEN WithFile(b, flush(write(File(b), <<FooterTok>>)))
    ELSE b

release_handle(b) ==
    IF b.file_handle THEN WithFile(b, close(File(b))) ELSE b

RECURSIVE render_pages(_)
render_pages(ps) ==
    IF ps = <<>> THEN <<>> ELSE render_page(Head(ps)) \o render_pages(Tail(ps))

ensure_pages(ps) ==
    IF ps = <<>> THEN <<PageContent(1, <<TextBlock(NoContentText)>>)>> ELSE ps

\* build(output_path): arg is TRUE when the caller passes a path
build_raises(b, arg) == ~b.streaming /\ ~arg /\ ~b.output_path

build(b, arg) ==
    IF b.streaming THEN release_handle(write_footer(close_page(b)))
    ELSE IF build_raises(b, arg) THEN b
    ELSE LET b1 == [b EXCEPT !.pages = ensure_pages(@)]
         IN  WithFile(b1, write_text(File(b1),
                 <<HeaderTok>> \o render_pages(b1.pages) \o <<FooterTok>>))

\* ----------------------------------------------------------------- inputs
TA == TextBlock(<<"a">>)
TW == TextBlock(<<" ">>)
TP == TextBlock(<<"a", "\n", "\n", "<", " ">>)
FX == FormulaBlock(<<"x">>)
FW == FormulaBlock(<<" ", "\n">>)
NoBlock == TextBlock(<<>>)

BlockInputs == {TA, TW, TP, FX, FW}
BlockListInputs == {<<>>, <<TW>>, <<TP>>, <<TA, FX>>, <<TW, FW>>}
PageNumbers == 1..MaxPageNo
PageInputs == {PageContent(n, bs) : n \in PageNumbers, bs \in BlockListInputs}
NoPage == PageContent(0, <<>>)
\* pages given to the EPUB builder: also one whose only block is one character
EpubPageInputs == PageInputs \cup {PageContent(n, <<TA>>) : n \in PageNumbers}

\* ------------------------------------------------------------- the builder
Builder ==
    [streaming |-> streaming, output_path |-> output_path, pages |-> pages,
     file_handle |-> file_handle, header_written |-> header_written,
     current_page |-> current_page, buffer |-> buffer, disk |-> disk,
     exists |-> exists]

SetBuilder(b) ==
    /\ streaming' = b.streaming
    /\ output_path' = b.output_path
    /\ pages' = b.pages
    /\ file_handle' = b.file_handle
    /\ header_written' = b.header_written
    /\ current_page' = b.current_page
    /\ buffer' = b.buffer
    /\ disk' = b.disk
    /\ exists' = b.exists

Call(op, block, page, n, outcome) ==
    [op |-> op, block |-> block, page |-> page, n |-> n, outcome |-> outcome]

InitBuilder(b) ==
    /\ streaming = b.streaming
    /\ output_path = b.output_path
    /\ pages = b.pages
    /\ file_handle = b.file_handle
    /\ header_written = b.header_written
    /\ current_page = b.current_page
    /\ buffer = b.buffer
    /\ disk = b.disk
    /\ exists = b.exists

\* ------------------------------------------------------------ ImageSplitter
MinGapTolerance == 8
IndentLimit == 40
MinRegionHeight == 20
CropMargin == 5

\* one OCR line box; bbox is FALSE for an item whose bbox is empty
LineBox(y_min, y_max, x_min, x_max) ==
    [bbox |-> TRUE, y_min |-> y_min, y_max |-> y_max, x_min |-> x_min,
     x_max |-> x_max]
NoBox == [bbox |-> FALSE, y_min |-> 0, y_max |-> 0, x_min |-> 0, x_max |-> 0]

Min2(a, b) == IF a <= b THEN a ELSE b
Max2(a, b) == IF a >= b THEN a ELSE b

\* the loop over ocr_result[0] that skips items without a bbox
RECURSIVE collect_lines(_)
collect_lines(items) ==
    IF items = <<>> THEN <<>>
    ELSE (IF Head(items).bbox THEN <<Head(items)>> ELSE <<>>)
         \o collect_lines(Tail(items))

\* list.sort(key=y_min): stable
RECURSIVE insert_line(_, _)
insert_line(sorted, l) ==
    IF sorted = <<>> THEN <<l>>
    ELSE IF sorted[Len(sorted)].y_min <= l.y_min THEN Append(sorted, l)
    ELSE Append(insert_line(SubSeq(sorted, 1, Len(sorted) - 1), l), sorted[Len(sorted)])

RECURSIVE sort_lines(_)
sort_lines(ls) ==
    IF ls = <<>> THEN <<>>
    ELSE insert_line(sort_lines(SubSeq(ls, 1, Len(ls) - 1)), ls[Len(ls)])

line_gaps(lines) == [i \in 1..(Len(lines) - 1) |-> lines[i + 1].y_min - lines[i].y_max]

RECURSIVE positive(_)
positive(gaps) ==
    IF gaps = <<>> THEN <<>>
    ELSE (IF Head(gaps) > 0 THEN <<Head(gaps)>> ELSE <<>>) \o positive(Tail(gaps))

RECURSIVE insert_num(_, _)
insert_num(sorted, x) ==
    IF sorted = <<>> THEN <<x>>
    ELSE IF sorted[Len(sorted)] <= x THEN Append(sorted, x)
    ELSE Append(insert_num(SubSeq(sorted, 1, Len(sorted) - 1), x), sorted[Len(sorted)])

RECURSIVE sort_nums(_)
sort_nums(xs) ==
    IF xs = <<>> THEN <<>>
    ELSE insert_num(sort_nums(SubSeq(xs, 1, Len(xs) - 1)), xs[Len(xs)])

\* A float that may be NaN; twice is two times its value (medians of
\* integers are multiples of one half).
Num(twice) == [nan |-> FALSE, twice |-> twice]
NaN == [nan |-> TRUE, twice |-> 0]

\* mutant: the lower of the two middle values instead of their mean
np_median_lower(xs) ==
    LET v == sort_nums(xs)
        n == Len(v)
    IN  IF n = 0 THEN NaN ELSE Num(2 * v[(n + 1) \div 2])

\* numpy.median: NaN for an empty list
np_median(xs) ==
    LET v == sort_nums(xs)
        n == Len(v)
    IN  IF n = 0 THEN NaN
        ELSE IF n % 2 = 1 THEN Num(2 * v[(n + 1) \div 2])
        ELSE Num(v[n \div 2] + v[n \div 2 + 1])

median_of(gaps) == IF gaps # <<>> THEN np_median(positive(gaps)) ELSE Num(0)

\* vertical_gap < max(1.5 * median_gap, 8); max(nan, 8) is nan in Python and
\* every comparison with nan is false
vertical_close(vertical_gap, median_gap) ==
    IF median_gap.nan THEN FALSE
    ELSE 4 * vertical_gap < Max2(3 * median_gap.twice, 4 * MinGapTolerance)

Abs(x) == IF x < 0 THEN -x ELSE x

\* overlap_ratio > 0.6, with overlap_ratio = 0 when union_width <= 0
overlap_enough(l1, l2) ==
    LET overlap_width == Min2(l1.x_max, l2.x_max) - Max2(l1.x_min, l2.x_min)
        union_width == Max2(l1.x_max, l2.x_max) - Min2(l1.x_min, l2.x_min)
    IN  union_width > 0 /\ 5 * overlap_width > 3 * union_width

same_paragraph(l1, l2, median_gap) ==
    /\ vertical_close(l2.y_min - l1.y_max, median_gap)
    /\ Abs(l2.x_min - l1.x_min) < IndentLimit
    /\ overlap_enough(l1, l2)

\* A paragraph (cur_start, cur_end); first and last are the indices of the
\* sorted lines it was built from (not stored by the code).
Para(y_start, y_end, first, last) ==
    [y_start |-> y_start, y_end |-> y_end, first |-> first, last |-> last]

\* one iteration of the merge loop on lines[i], lines[i + 1]
merge_step(acc, lines, i, median_gap) ==
    IF same_paragraph(lines[i], lines[i + 1], median_gap)
    THEN [acc EXCEPT !.cur = Para(acc.cur.y_start, lines[i + 1].y_max,
                                  acc.cur.first, i + 1)]
    ELSE [paragraphs |-> Append(acc.paragraphs, acc.cur),
          cur |-> Para(lines[i + 1].y_min, lines[i + 1].y_max, i + 1, i + 1)]

RECURSIVE merge_loop(_, _, _, _)
merge_loop(acc, lines, i, median_gap) ==
    IF i > Len(lines) - 1 THEN acc
    ELSE merge_loop(merge_step(acc, lines, i, median_gap), lines, i + 1, median_gap)

cluster(lines, median_gap) ==
    LET acc == merge_loop([paragraphs |-> <<>>,
                           cur |-> Para(lines[1].y_min, lines[1].y_max, 1, 1)],
                          lines, 1, median_gap)
    IN  Append(acc.paragraphs, acc.cur)

\* a returned region (para_img, y0, y1), with the lines it stands for
Region(y0, y1, first, last) == [y0 |-> y0, y1 |-> y1, first |-> first, last |-> last]

RECURSIVE crop(_, _)
crop(paragraphs, height) ==
    IF paragraphs = <<>> THEN <<>>
    ELSE LET p == Head(paragraphs)
             y0 == Max2(0, p.y_start - CropMargin)
             y1 == Min2(height, p.y_end + CropMargin)
         IN  (IF y1 - y0 > MinRegionHeight
              THEN <<Region(y0, y1, p.first, p.last)>> ELSE <<>>)
             \o crop(Tail(paragraphs), height)

\* mutant: nothing is returned when there is nothing to cluster
whole_image_none(height, n) == <<>>

whole_image(height, n) == <<Region(0, height, 1, n)>>

IdleSplit ==
    [pc |-> "idle", ocr_result |-> <<>>, height |-> 0, lines |-> <<>>,
     median_gap |-> Num(0), paragraphs |-> <<>>, results |-> <<>>]

LineInputs ==
    { LineBox(0, 10, 0, 100), LineBox(12, 22, 0, 100), LineBox(60, 70, 0, 100),
      LineBox(10, 20, 0, 100), LineBox(30, 55, 50, 100), LineBox(24, 34, 0, 50),
      LineBox(5, 8, 0, 100), LineBox(30, 36, 10, 100), NoBox }
HeightInputs == {72, 100}

\* ------------------------------------------------------------ PDFPageParser
TextConfPercent == 30
FormulaConfPercent == 60

\* one OCR result: recognised text with its confidence, in percent
Ocr(text, conf) == [text |-> text, conf |-> conf]
\* what the OCR engine returns for one paragraph image
Paragraph(text_results, formulas) == [text_results |-> text_results, formulas |-> formulas]

\* mutant: a result at the threshold is accepted too
RECURSIVE filter_texts_at_least(_)
filter_texts_at_least(text_results) ==
    IF text_results = <<>> THEN <<>>
    ELSE (IF Head(text_results).conf >= TextConfPercent
          THEN <<Head(text_results).text>> ELSE <<>>)
         \o filter_texts_at_least(Tail(text_results))

RECURSIVE filter_texts(_)
filter_texts(text_results) ==
    IF text_results = <<>> THEN <<>>
    ELSE (IF Head(text_results).conf > TextConfPercent
          THEN <<Head(text_results).text>> ELSE <<>>)
         \o filter_texts(Tail(text_results))

\* ' '.join(texts)
RECURSIVE join_space(_)
join_space(texts) ==
    IF texts = <<>> THEN <<>>
    ELSE IF Len(texts) = 1 THEN texts[1]
    ELSE texts[1] \o <<" ">> \o join_space(Tail(texts))

parse_text(text_results) ==
    LET filtered_texts == filter_texts(text_results)
        paragraph_text == strip(join_space(filtered_texts))
    IN  IF filtered_texts # <<>> /\ paragraph_text # <<>>
        THEN <<TextBlock(paragraph_text)>> ELSE <<>>

RECURSIVE parse_formulas(_)
parse_formulas(formulas) ==
    IF formulas = <<>> THEN <<>>
    ELSE (IF Head(formulas).conf > FormulaConfPercent
          THEN <<FormulaBlock(Head(formulas).text)>> ELSE <<>>)
         \o parse_formulas(Tail(formulas))

\* the blocks parse() produces for a page image (OCR branch), in the order it
\* hands them to block_callback; a text item of the pdfminer branch behaves
\* as a paragraph with one text result of full confidence and no formula
RECURSIVE parse(_)
parse(layout) ==
    IF layout = <<>> THEN <<>>
    ELSE parse_text(Head(layout).text_results)
         \o parse_formulas(Head(layout).formulas)
         \o parse(Tail(layout))

\* ---------------------------------------------------------- FormulaExtractor
\* The modelled texts hold no LaTeX delimiter, so no pattern of _math_patterns
\* matches and every text block is re-emitted with its content.
RECURSIVE extract_blocks(_)
extract_blocks(blocks) ==
    IF blocks = <<>> THEN <<>>
    ELSE (IF Head(blocks).kind = "text" THEN <<TextBlock(Head(blocks).content)>>
          ELSE <<Head(blocks)>>)
         \o extract_blocks(Tail(blocks))

extract(page) ==
    LET new_blocks == extract_blocks(page.blocks)
    IN  PageContent(page.page_number,
                    IF new_blocks = <<>> THEN page.blocks ELSE new_blocks)

\* ------------------------------------------------------------- EPUBBuilder
ParagraphMarkupLength == 7
FormulaMarkupLength == 83
PlaceholderLength == 14
MinBodyLength == 10

NewEpub == [chapters |-> <<>>, written |-> FALSE, output |-> <<>>]
Chapter(page_number, body) == [page_number |-> page_number, body |-> body]

RECURSIVE epub_body_parts(_)
epub_body_parts(blocks) ==
    IF blocks = <<>> THEN <<>>
    ELSE LET block == Head(blocks)
             text == strip(block.content)
         IN  (IF text = <<>> THEN <<>>
              ELSE IF block.kind = "text" THEN <<ParagraphTok(text)>>
              ELSE <<FormulaTok(text)>>)
             \o epub_body_parts(Tail(blocks))

part_length(tok) ==
    CASE tok.t = "p" -> ParagraphMarkupLength + Len(tok.text)
      [] tok.t = "formula" -> FormulaMarkupLength + Len(tok.text)
      [] OTHER -> PlaceholderLength

\* len("\n".join(body_parts))
RECURSIVE body_length(_)
body_length(parts) ==
    IF parts = <<>> THEN 0
    ELSE part_length(Head(parts)) + (IF Len(parts) > 1 THEN 1 ELSE 0)
         + body_length(Tail(parts))

epub_body(blocks) ==
    LET parts == epub_body_parts(blocks)
        body_parts == IF parts = <<>> THEN <<PlaceholderTok>> ELSE parts
    IN  IF body_length(body_parts) < MinBodyLength
        THEN <<PlaceholderTok>> ELSE body_parts

\* Text goes into the XHTML unescaped. A body without markup characters
\* parses and keeps its content; for one with "<" or "&" the outcome of the
\* recovering parser is open: content kept (TRUE) or judged empty (FALSE).
XmlSpecial == {"<", "&"}
well_formed(body) ==
    \A i \in DOMAIN body : \A j \in DOMAIN body[i].text : body[i].text[j] \notin XmlSpecial
xml_outcomes(body) == IF well_formed(body) THEN {TRUE} ELSE BOOLEAN

epub_add_page(e, page, valid) ==
    LET body == epub_body(page.blocks)
        content == IF valid THEN body ELSE <<PlaceholderTok>>
    IN  [e EXCEPT !.chapters = Append(@, Chapter(page.page_number, content))]

\* The outcome of chapter.get_body_content() is the library's: a check of
\* the chapters names the positions for which it is empty or raises.
BodyChecks(chapters) == SUBSET DOMAIN chapters

RECURSIVE Pick(_, _, _)
Pick(chapters, positions, i) ==
    IF i > Len(chapters) THEN <<>>
    ELSE (IF i \in positions THEN <<chapters[i]>> ELSE <<>>)
         \o Pick(chapters, positions, i + 1)

\* the chapters that failed the check are removed and appended again with
\* the placeholder body, after the ones that passed
recreate(chapters, failed) ==
    LET to_recreate == Pick(chapters, failed, 1)
    IN  Pick(chapters, DOMAIN chapters \ failed, 1)
        \o [i \in DOMAIN to_recreate |->
               Chapter(to_recreate[i].page_number, <<PlaceholderTok>>)]

epub_build_raises(e) == e.chapters = <<>>

\* build: first check and recreation, final check and fixes, then toc and
\* spine are the chapter list
epub_build(e, failed, final_failed) ==
    IF epub_build_raises(e) THEN e
    ELSE LET chapters == recreate(recreate(e.chapters, failed), final_failed)
         IN  [e EXCEPT !.chapters = chapters, !.written = TRUE,
                       !.output = chapters]

\* ------------------------------------------------------ PDFToEPUBPipeline.run
IdleRun ==
    [pc |-> "idle", format |-> "html", progress |-> FALSE, raw_pages |-> <<>>, idx |-> 0,
     blocks |-> <<>>, k |-> 0, events |-> <<>>, preview |-> <<>>]

\* StreamlitProgress._render_streaming_preview: the content handed to the
\* preview; the closing tags of the footer are appended when "</html>" is
\* missing; nothing is rendered while the file does not exist
render_streaming_preview(r, b) ==
    IF ~r.progress \/ ~b.exists THEN r
    ELSE [r EXCEPT !.preview = IF Count("footer", b.disk) = 0
                               THEN b.disk \o <<FooterTok>> ELSE b.disk]

Event(name, n) == [name |-> name, n |-> n]
\* mutant: a hook is not called again with the name it was last called with
Notify_throttled(r, name, n) ==
    IF r.progress /\ (r.events = <<>> \/ r.events[Len(r.events)].name # name)
    THEN [r EXCEPT !.events = Append(@, Event(name, n))] ELSE r

Notify(r, name, n) ==
    IF r.progress THEN [r EXCEPT !.events = Append(@, Event(name, n))] ELSE r

ParagraphInputs ==
    { Paragraph(<<>>, <<>>),
      Paragraph(<<Ocr(<<"a">>, 20)>>, <<Ocr(<<"x">>, 60)>>),
      Paragraph(<<Ocr(<<"a">>, 90), Ocr(<<"b">>, 30)>>, <<>>),
      Paragraph(<<Ocr(<<" ">>, 80)>>, <<Ocr(<<"x">>, 70)>>),
      Paragraph(<<Ocr(<<"a">>, 31), Ocr(<<"b">>, 95)>>, <<Ocr(<<"x">>, 61)>>) }
LayoutInputs ==
    {<<>>} \cup {<<p>> : p \in ParagraphInputs}
    \cup {<<Paragraph(<<Ocr(<<"a">>, 90)>>, <<>>), q>> : q \in ParagraphInputs}

RECURSIVE SeqsUpTo(_, _)
SeqsUpTo(S, n) ==
    IF n = 0 THEN {<<>>}
    ELSE SeqsUpTo(S, n - 1)
         \cup {Append(q, x) : q \in {r \in SeqsUpTo(S, n - 1) : Len(r) = n - 1}, x \in S}

histVars == <<calls, before>>

RecordCall(c) ==
    /\ calls' = Append(calls, c)
    /\ before' = Builder

NoCalls ==
    /\ calls = <<>>
    /\ before = NewBuilder(FALSE, FALSE)

auxVars == <<validator, server>>
IdleValidator == [pc |-> "idle", pages |-> <<>>, once |-> <<>>, twice |-> <<>>]
IdleServer ==
    [pc |-> "idle", method |-> "GET", path |-> <<>>, real_full_path |-> <<>>,
     status |-> 0, served |-> <<>>]
AuxIdle == validator = IdleValidator /\ server = IdleServer
vars == <<builderVars, histVars, run, split, epub, auxVars>>

\* -------------------------------------------- Spec: calls on an HTMLBuilder
Init ==
    /\ \E s \in BOOLEAN, p \in BOOLEAN : InitBuilder(NewBuilder(s, p))
    /\ NoCalls
    /\ run = IdleRun
    /\ split = IdleSplit
    /\ epub = NewEpub
    /\ AuxIdle

AddBlock ==
    \E block \in BlockInputs, n \in PageNumbers :
        /\ Len(calls) < MaxOps
        /\ SetBuilder(add_block(Builder, block, n))
        /\ RecordCall(Call("add_block", block, NoPage, n, "returned"))
        /\ UNCHANGED <<run, split, epub, auxVars>>

AddPage ==
    \E page \in PageInputs :
        /\ Len(calls) < MaxOps
        /\ SetBuilder(add_page(Builder, page))
        /\ RecordCall(
               Call("add_page", NoBlock, page, page.page_number, "returned"))
        /\ UNCHANGED <<run, split, epub, auxVars>>

BuildCall ==
    \E arg \in BOOLEAN :
        /\ Len(calls) < MaxOps
        /\ SetBuilder(build(Builder, arg))
        /\ RecordCall(
               Call("build", NoBlock, NoPage, IF arg THEN 1 ELSE 0,
                    IF build_raises(Builder, arg) THEN "raised" ELSE "returned"))
        /\ UNCHANGED <<run, split, epub, auxVars>>

Next == AddBlock \/ AddPage \/ BuildCall

Spec == Init /\ [][Next]_vars

\* ---------------------------------------------- SpecRun: one pipeline run
OutputFormats == {"html", "epub"}

\* __init__: a streaming HTMLBuilder with the output path for "html", an
\* EPUBBuilder otherwise (the HTML state is then unused)
InitRun ==
    /\ \E format \in OutputFormats, progress \in BOOLEAN,
          raw_pages \in SeqsUpTo(LayoutInputs, MaxPages) :
           /\ run = [IdleRun EXCEPT !.pc = "start", !.format = format,
                                    !.progress = progress, !.raw_pages = raw_pages]
           /\ InitBuilder(IF format = "html" THEN NewBuilder(TRUE, TRUE)
                          ELSE NewBuilder(FALSE, FALSE))
    /\ NoCalls
    /\ split = IdleSplit
    /\ epub = NewEpub
    /\ AuxIdle

total_pages == Len(run.raw_pages)

RunStart ==
    /\ UNCHANGED <<split, epub, auxVars>>
    /\ run.pc = "start"
    /\ run' = [Notify(run, "on_start", total_pages) EXCEPT !.pc = "loop"]
    /\ UNCHANGED <<builderVars, histVars>>

\* parse(idx, layout, block_callback) starts on the next page
RunParse ==
    /\ UNCHANGED <<split, epub, auxVars>>
    /\ run.pc = "loop"
    /\ run.idx < total_pages
    /\ run' = [run EXCEPT !.pc = "parsing", !.idx = @ + 1,
                          !.blocks = parse(run.raw_pages[run.idx + 1]), !.k = 0]
    /\ UNCHANGED <<builderVars, histVars>>

\* the parser hands its next block to block_callback; EPUBBuilder has no
\* add_block, so the call raises AttributeError, which ends the run
RunBlockCallback ==
    /\ UNCHANGED <<split, epub, auxVars>>
    /\ run.pc = "parsing"
    /\ run.k < Len(run.blocks)
    /\ LET block == run.blocks[run.k + 1]
       IN  IF run.format = "html"
           THEN /\ SetBuilder(add_block(Builder, block, run.idx))
                /\ RecordCall(
                       Call("add_block", block, NoPage, run.idx, "returned"))
                /\ run' = [render_streaming_preview(
                               run, add_block(Builder, block, run.idx))
                             EXCEPT !.k = @ + 1]
           ELSE /\ RecordCall(
                       Call("add_block", block, NoPage, run.idx, "raised"))
                /\ run' = [run EXCEPT !.pc = "failed"]
                /\ UNCHANGED builderVars

\* an exception leaves parse, block_callback or add_page (the splitter's OCR
\* call, mkdir, line_image.save, render_preview or a write to the output
\* file fail) and, uncaught in run, ends the run
RunRaise ==
    /\ UNCHANGED <<split, epub, auxVars>>
    /\ run.pc = "parsing"
    /\ run' = [run EXCEPT !.pc = "failed"]
    /\ UNCHANGED <<builderVars, histVars>>

\* parse returns; the page goes through extract and, when it has blocks,
\* add_page; then on_page_processed
RunPageDone ==
    /\ UNCHANGED <<split, auxVars>>
    /\ run.pc = "parsing"
    /\ run.k = Len(run.blocks)
    /\ LET page == extract(PageContent(run.idx, run.blocks))
       IN  IF page.blocks = <<>>
           THEN UNCHANGED <<builderVars, histVars, epub>>
           ELSE /\ RecordCall(
                       Call("add_page", NoBlock, page, page.page_number, "returned"))
                /\ IF run.format = "html"
                   THEN /\ SetBuilder(add_page(Builder, page))
                        /\ UNCHANGED epub
                   ELSE /\ \E valid \in xml_outcomes(epub_body(page.blocks)) :
                               epub' = epub_add_page(epub, page, valid)
                        /\ UNCHANGED builderVars
    /\ LET page == extract(PageContent(run.idx, run.blocks))
           b == IF page.blocks # <<>> /\ run.format = "html"
                THEN add_page(Builder, page) ELSE Builder
       IN  run' = [render_streaming_preview(
                       Notify(run, "on_page_processed", run.idx), b)
                   EXCEPT !.pc = "loop"]

RunBuild ==
    /\ UNCHANGED <<split, auxVars>>
    /\ run.pc = "loop"
    /\ run.idx = total_pages
    /\ LET raises == IF run.format = "html" THEN build_raises(Builder, TRUE)
                     ELSE epub_build_raises(epub)
       IN  /\ RecordCall(
                  Call("build", NoBlock, NoPage, 1,
                       IF raises THEN "raised" ELSE "returned"))
           /\ run' = [run EXCEPT !.pc = IF raises THEN "failed" ELSE "built"]
    /\ IF run.format = "html"
       THEN /\ SetBuilder(build(Builder, TRUE))
            /\ UNCHANGED epub
       ELSE /\ \E failed \in BodyChecks(epub.chapters),
                  final_failed \in BodyChecks(epub.chapters) :
                   epub' = epub_build(epub, failed, final_failed)
            /\ UNCHANGED builderVars

RunFinish ==
    /\ UNCHANGED <<split, epub, auxVars>>
    /\ run.pc = "built"
    /\ run' = [Notify(run, "on_finish", 0) EXCEPT !.pc = "done"]
    /\ UNCHANGED <<builderVars, histVars>>

NextRun ==
    \/ RunStart \/ RunParse \/ RunBlockCallback \/ RunRaise \/ RunPageDone
    \/ RunBuild \/ RunFinish

SpecRun == InitRun /\ [][NextRun]_vars

\* -------------------------------------- SpecSplit: one split_into_lines call
InitSplit ==
    /\ InitBuilder(NewBuilder(FALSE, FALSE))
    /\ NoCalls
    /\ run = IdleRun
    /\ epub = NewEpub
    /\ AuxIdle
    /\ \E ocr_result \in SeqsUpTo(LineInputs, MaxLines), height \in HeightInputs :
           split = [IdleSplit EXCEPT !.pc = "start", !.ocr_result = ocr_result,
                                     !.height = height]

\* no OCR result, or at most one line: the whole image is the only region
SplitWholeImage ==
    /\ split.pc = "start"
    /\ LET lines == collect_lines(split.ocr_result)
       IN  /\ Len(lines) <= 1
           /\ split' = [split EXCEPT !.pc = "done", !.lines = lines,
                                     !.results = whole_image(split.height, Len(lines))]
    /\ UNCHANGED <<builderVars, histVars, run, epub, auxVars>>

\* sort, median gap and the merge loop
SplitCluster ==
    /\ split.pc = "start"
    /\ LET lines == sort_lines(collect_lines(split.ocr_result))
           median_gap == median_of(line_gaps(lines))
       IN  /\ Len(lines) > 1
           /\ split' = [split EXCEPT !.pc = "crop", !.lines = lines,
                                     !.median_gap = median_gap,
                                     !.paragraphs = cluster(lines, median_gap)]
    /\ UNCHANGED <<builderVars, histVars, run, epub, auxVars>>

\* crop paragraph images
SplitCrop ==
    /\ split.pc = "crop"
    /\ split' = [split EXCEPT !.pc = "done",
                              !.results = crop(split.paragraphs, split.height)]
    /\ UNCHANGED <<builderVars, histVars, run, epub, auxVars>>

NextSplit == SplitWholeImage \/ SplitCluster \/ SplitCrop

SpecSplit == InitSplit /\ [][NextSplit]_vars

\* ------------------------------- SpecValidate: _ensure_non_empty_pages applied
NoPagesText ==
    <<"This EPUB is a placeholder.", "\n", "\n",
      "No OCR or text extraction is enabled yet.">>
NoTextText ==
    <<"This EPUB is a placeholder.", "\n", "\n",
      "PDF pages were parsed, but no textual content was extracted.">>

\* mutant: only the first block of each page is looked at
has_valid_content_first_block(pages_) ==
    \E i \in DOMAIN pages_ :
        /\ pages_[i].blocks # <<>>
        /\ pages_[i].blocks[1].kind = "text"
        /\ strip(pages_[i].blocks[1].content) # <<>>

has_valid_content(pages_) ==
    \E i \in DOMAIN pages_ : \E j \in DOMAIN pages_[i].blocks :
        /\ pages_[i].blocks[j].kind = "text"
        /\ strip(pages_[i].blocks[j].content) # <<>>

ensure_non_empty_pages(pages_) ==
    IF pages_ = <<>>
    THEN <<PageContent(1, <<TextBlock(NoPagesText)>>)>>
    ELSE IF ~has_valid_content(pages_)
    THEN [pages_ EXCEPT ![1].blocks = Append(@, TextBlock(NoTextText))]
    ELSE pages_

InitValidate ==
    /\ InitBuilder(NewBuilder(FALSE, FALSE))
    /\ NoCalls
    /\ run = IdleRun
    /\ split = IdleSplit
    /\ epub = NewEpub
    /\ server = IdleServer
    /\ \E ps \in SeqsUpTo(PageInputs, MaxPages) :
           validator = [IdleValidator EXCEPT !.pc = "start", !.pages = ps]

ValidateOnce ==
    /\ validator.pc = "start"
    /\ validator' = [validator EXCEPT
                         !.pc = "once",
                         !.once = ensure_non_empty_pages(validator.pages)]
    /\ UNCHANGED <<builderVars, histVars, run, split, epub, server>>

ValidateAgain ==
    /\ validator.pc = "once"
    /\ validator' = [validator EXCEPT
                         !.pc = "twice",
                         !.twice = ensure_non_empty_pages(validator.once)]
    /\ UNCHANGED <<builderVars, histVars, run, split, epub, server>>

NextValidate == ValidateOnce \/ ValidateAgain

SpecValidate == InitValidate /\ [][NextValidate]_vars

\* ------------------------------------ SpecServe: CustomHTTPRequestHandler
\* A path is a string, a sequence of characters; a name of several
\* characters that is never cut stands as one character.
split_query(path) ==
    LET marks == {i \in DOMAIN path : path[i] = "?"}
    IN  IF marks = {} THEN path
        ELSE SubSeq(path, 1, (CHOOSE i \in marks : \A j \in marks : i <= j) - 1)

strip_leading_slash(path) ==
    IF path # <<>> /\ Head(path) = "/" THEN Tail(path) ELSE path

\* os.path.join: an absolute second part replaces the first
path_join(dir, rel) ==
    IF rel # <<>> /\ Head(rel) = "/" THEN rel ELSE dir \o <<"/">> \o rel

RECURSIVE split_slash(_)
split_slash(path) ==
    LET cuts == {i \in DOMAIN path : path[i] = "/"}
    IN  IF cuts = {} THEN <<path>>
        ELSE LET i == CHOOSE c \in cuts : \A d \in cuts : c <= d
             IN  <<SubSeq(path, 1, i - 1)>> \o split_slash(SubSeq(path, i + 1, Len(path)))

RECURSIVE join_slash(_)
join_slash(parts) ==
    IF parts = <<>> THEN <<>> ELSE <<"/">> \o Head(parts) \o join_slash(Tail(parts))

path_of(parts) == IF parts = <<>> THEN <<"/">> ELSE join_slash(parts)

RECURSIVE collapse(_, _)
collapse(parts, acc) ==
    IF parts = <<>> THEN acc
    ELSE IF Head(parts) \in {<<>>, <<".">>} THEN collapse(Tail(parts), acc)
    ELSE IF Head(parts) = <<"..">>
    THEN collapse(Tail(parts), IF acc = <<>> THEN acc ELSE SubSeq(acc, 1, Len(acc) - 1))
    ELSE collapse(Tail(parts), Append(acc, Head(parts)))

\* os.path.normpath of an absolute path
normpath(path) == path_of(collapse(split_slash(path), <<>>))

\* the file system: the serve directory /w, its sibling /w2, a file /x
\* outside, and in /w a file, a directory with an index and a link to /x
ServeDirectory == <<"/", "w">>
Dirs == {<<"/">>, <<"/", "w">>, <<"/", "w", "2">>, <<"/", "w", "/", "w">>}
Files ==
    {<<"/", "x">>, <<"/", "w", "/", "x">>, <<"/", "w", "2", "/", "x">>,
     <<"/", "w", "/", "w", "/", "index.html">>}
Links == {<<"/", "w", "/", "l">>}
LinkTarget(link) == <<"/", "x">>

RECURSIVE resolve(_, _)
resolve(parts, acc) ==
    IF parts = <<>> THEN acc
    ELSE LET next == Append(acc, Head(parts))
         IN  resolve(Tail(parts),
                     IF path_of(next) \in Links
                     THEN collapse(split_slash(LinkTarget(path_of(next))), <<>>)
                     ELSE next)

\* os.path.realpath
realpath(path) == path_of(resolve(collapse(split_slash(path), <<>>), <<>>))

\* str.startswith
startswith(string, prefix) ==
    Len(prefix) <= Len(string) /\ SubSeq(string, 1, Len(prefix)) = prefix

isdir(path) == realpath(path) \in Dirs
isfile(path) == realpath(path) \in Files

Response(status, served) == [status |-> status, served |-> served]

\* do_GET and do_HEAD take the same decisions; HEAD sends no body
handle(path) ==
    LET request_path == strip_leading_slash(split_query(path))
        full_path == normpath(path_join(ServeDirectory, request_path))
        real_serve_dir == realpath(ServeDirectory)
        real_full_path == realpath(full_path)
        index_path == path_join(full_path, <<"index.html">>)
    IN  IF ~startswith(real_full_path, real_serve_dir) THEN Response(403, <<>>)
        ELSE IF isdir(full_path)
        THEN (IF isfile(index_path) THEN Response(200, index_path)
              ELSE Response(404, <<>>))
        ELSE IF ~isfile(full_path) THEN Response(404, <<>>)
        ELSE Response(200, full_path)

PathChars == {"/", "..", "w", "2", "x", "l", "?"}
RequestInputs ==
    SeqsUpTo(PathChars, MaxPathLen)
    \cup { <<"/", "..", "/", "w", "2", "/", "x">>,
           <<"/", "w", "/", "..", "/", "x", "?", "x">>,
           <<"/", "..", "/", "..", "/", "x">> }

InitServe ==
    /\ InitBuilder(NewBuilder(FALSE, FALSE))
    /\ NoCalls
    /\ run = IdleRun
    /\ split = IdleSplit
    /\ epub = NewEpub
    /\ validator = IdleValidator
    /\ server = [IdleServer EXCEPT !.pc = "listening"]

Answer(method, path) ==
        /\ server.pc = "listening"
        /\ server' = [pc |-> "answered", method |-> method, path |-> path,
                      real_full_path |->
                          realpath(normpath(path_join(ServeDirectory,
                              strip_leading_slash(split_query(path))))),
                      status |-> handle(path).status,
                      served |-> handle(path).served]
        /\ UNCHANGED <<builderVars, histVars, run, split, epub, validator>>

do_GET == \E path \in RequestInputs : Answer("GET", path)
do_HEAD == \E path \in RequestInputs : Answer("HEAD", path)

\* the connection is done and the server waits for the next request
NextRequest ==
    /\ server.pc = "answered"
    /\ server' = [IdleServer EXCEPT !.pc = "listening"]
    /\ UNCHANGED <<builderVars, histVars, run, split, epub, validator>>

NextServe == do_GET \/ do_HEAD \/ NextRequest

SpecServe == InitServe /\ [][NextServe]_vars

\* ------------------------------------------ SpecEpub: calls on an EPUBBuilder
InitEpub ==
    /\ InitBuilder(NewBuilder(FALSE, FALSE))
    /\ NoCalls
    /\ run = IdleRun
    /\ split = IdleSplit
    /\ epub = NewEpub
    /\ AuxIdle

EpubAddPage ==
    \E page \in EpubPageInputs :
        \E valid \in xml_outcomes(epub_body(page.blocks)) :
            /\ Len(calls) < MaxOps
            /\ epub' = epub_add_page(epub, page, valid)
            /\ RecordCall(
                   Call("add_page", NoBlock, page, page.page_number, "returned"))
            /\ UNCHANGED <<builderVars, run, split, auxVars>>

EpubBuild ==
    /\ Len(calls) < MaxOps
    /\ \E failed \in BodyChecks(epub.chapters),
          final_failed \in BodyChecks(epub.chapters) :
           epub' = epub_build(epub, failed, final_failed)
    /\ RecordCall(
           Call("build", NoBlock, NoPage, 1,
                IF epub_build_raises(epub) THEN "raised" ELSE "returned"))
    /\ UNCHANGED <<builderVars, run, split, auxVars>>

NextEpub == EpubAddPage \/ EpubBuild

SpecEpub == InitEpub /\ [][NextEpub]_vars

\* ------------------------------------------------- notions used by claims
StreamingMode == streaming /\ output_path
IsAdd(c) == c.op \in {"add_block", "add_page"}
IsFinalize(c) == c.op = "build" /\ c.outcome = "returned"
AddCalls == {i \in DOMAIN calls : IsAdd(calls[i])}
FinalizeCalls == {i \in DOMAIN calls : IsFinalize(calls[i])}
\* the last call made is the first finalize that completed
JustFinalized ==
    /\ calls # <<>>
    /\ FinalizeCalls = {Len(calls)}

\* C1: finalize on an assembler that never received a block or a page leaves
\* an output that exists and is header, one placeholder page with a non-empty
\* placeholder block, footer -- in streaming and in non-streaming mode.
C1_EmptyFinalizeHasPlaceholderPage ==
    (output_path /\ Len(calls) = 1 /\ IsFinalize(calls[1])) =>
        /\ exists
        /\ Len(disk) = 5
        /\ disk[1] = HeaderTok
        /\ disk[2].t = "page_start"
        /\ disk[3].t \in {"p", "placeholder"}
        /\ disk[3].t = "p" => disk[3].text # <<>>
        /\ disk[4] = PageEndTok
        /\ disk[5] = FooterTok

\* C2: after a pipeline run, the finalized output holds a page section for
\* every input page k = 1..N; a page for which the parser produced no block
\* is present with the placeholder marker.
C2_EveryInputPageHasSection ==
    run.pc \in {"built", "done"} =>
        \A k \in 1..total_pages :
            \E i \in DOMAIN disk :
                /\ disk[i] = PageStartTok(k)
                /\ parse(run.raw_pages[k]) = <<>> =>
                       (i < Len(disk) /\ disk[i + 1] = PlaceholderTok)

\* C3: after finalize every page section of the output holds at least one
\* rendered element (a placeholder when all its blocks were empty).
C3_NoEmptyPageSection ==
    JustFinalized =>
        \A i \in DOMAIN disk :
            disk[i].t = "page_start" =>
                /\ i < Len(disk)
                /\ disk[i + 1].t # "page_end"

\* C4: every block passed to add_block before finalize is represented in the
\* finalized output by its rendered content or by a placeholder.
C4_NoBlockDropped ==
    JustFinalized =>
        \A i \in DOMAIN calls :
            calls[i].op = "add_block" =>
                IF render_block(calls[i].block) # <<>>
                THEN \E j \in DOMAIN disk : <<disk[j]>> = render_block(calls[i].block)
                ELSE \E j \in DOMAIN disk : disk[j] = PlaceholderTok

\* C7: after finalize has completed, add_block and add_page signal an error.
C7_AddAfterFinalizeRaises ==
    output_path => \A i \in FinalizeCalls : \A j \in AddCalls :
        i < j => calls[j].outcome = "raised"

\* C8: a second finalize on the same assembler signals an error.
C8_SecondFinalizeRaises ==
    output_path => \A i \in FinalizeCalls : \A j \in DOMAIN calls :
        (i < j /\ calls[j].op = "build") => calls[j].outcome = "raised"

Balanced(toks) ==
    /\ Count("page_start", toks) = Count("page_end", toks)
    /\ \A k \in DOMAIN toks :
           Count("page_end", SubSeq(toks, 1, k)) <= Count("page_start", SubSeq(toks, 1, k))

\* some add_* call was made and then finalize
FinalizedAfterAdds ==
    \E k \in DOMAIN calls :
        /\ calls[k].op = "build"
        /\ k > 1
        /\ \A j \in 1..(k - 1) : IsAdd(calls[j])

\* C9: in streaming mode, once add_* calls (at least one) were followed by
\* finalize, every opened page section is closed exactly once, the footer is
\* written exactly once and last, and the file handle is released.
C9_FinalizeClosesEverything ==
    (StreamingMode /\ FinalizedAfterAdds) =>
        /\ Balanced(disk)
        /\ Count("footer", disk) = 1
        /\ disk[Len(disk)] = FooterTok
        /\ buffer = <<>>
        /\ ~file_handle

C9_Witness ==
    /\ StreamingMode
    /\ Len(calls) = 3
    /\ calls[1].op = "add_block"
    /\ calls[2].op = "add_block"
    /\ calls[1].n # calls[2].n
    /\ calls[3].op = "build"
    /\ Count("page_end", disk) = 2

\* C10: in streaming mode the header is written exactly once, by the first
\* add_* call, and stands before every page section.
C10_HeaderOnceAndFirst ==
    StreamingMode =>
        /\ AddCalls = {} => Count("header", disk) = 0
        /\ AddCalls # {} =>
              /\ Count("header", disk) = 1
              /\ disk[1] = HeaderTok
              /\ \A i \in DOMAIN disk : disk[i].t = "page_start" => i > 1

C10_Witness ==
    /\ StreamingMode
    /\ Len(calls) = 3
    /\ calls[1].op = "add_page"
    /\ calls[2].op = "add_block"
    /\ calls[3].op = "add_block"
    /\ Count("page_start", disk) = 2
    /\ Count("header", disk) = 1

\* ---------------------------------------------------- claims on the splitter
SortedByYMin(ls) == \A i \in 1..(Len(ls) - 1) : ls[i].y_min <= ls[i + 1].y_min
RegionsOf(i) == {r \in DOMAIN split.results :
                    split.results[r].first <= i /\ i <= split.results[r].last}

\* C5: for two or more line boxes sorted by y_min, the returned regions
\* partition the lines: each line lies in exactly one region, the regions
\* follow input order, and no region is empty.  (Stated for inputs with a
\* positive gap, where the median gap is a number.)
C5_RegionsPartitionLines ==
    (/\ split.pc = "done"
     /\ Len(split.lines) >= 2
     /\ ~split.median_gap.nan
     /\ SortedByYMin(collect_lines(split.ocr_result))) =>
        /\ \A i \in DOMAIN split.lines : Cardinality(RegionsOf(i)) = 1
        /\ \A r \in DOMAIN split.results :
               split.results[r].first <= split.results[r].last
        /\ \A r \in 1..(Len(split.results) - 1) :
               split.results[r].last < split.results[r + 1].first

AllGapsNonPositive(ls) == \A i \in 1..(Len(ls) - 1) : ls[i + 1].y_min - ls[i].y_max <= 0

\* C6: when no adjacent gap is positive, median_gap is 0 and the vertical
\* rule is vertical_gap < 8; two lines with equal x_min and x_max and
\* vertical_gap = 0 are merged into one span.
C6_NoPositiveGapMedianZero ==
    (/\ split.pc \in {"crop", "done"}
     /\ Len(split.lines) >= 2
     /\ AllGapsNonPositive(split.lines)) =>
        /\ split.median_gap = Num(0)
        /\ (/\ Len(split.lines) = 2
            /\ split.lines[1].x_min = split.lines[2].x_min
            /\ split.lines[1].x_max = split.lines[2].x_max
            /\ split.lines[2].y_min - split.lines[1].y_max = 0)
           => Len(split.paragraphs) = 1

\* ------------------------------------------ claims on the streaming output
LastCall == calls[Len(calls)]
NoBuildYet == \A i \in DOMAIN calls : calls[i].op # "build"
NoBuildBeforeLast == \A i \in 1..(Len(calls) - 1) : calls[i].op # "build"
IsAddBlock(c) == c.op = "add_block"
IsAddPage(c) == c.op = "add_page"
IsPageStart(tok) == tok.t = "page_start"
IsElement(tok) == tok.t \in {"p", "formula", "placeholder"}
AddBlockCalls == SelectSeq(calls, IsAddBlock)
\* maximal runs of consecutive add_block calls with equal page number
Runs(cs) == Cardinality({i \in DOMAIN cs : i = 1 \/ cs[i].n # cs[i - 1].n})
IsPrefix(a, c) == Len(a) <= Len(c) /\ SubSeq(c, 1, Len(a)) = a

\* C11: an add_block call whose page number differs from the open page's
\* closes the open section and then opens a new one; the sections opened by
\* add_block are as many as the maximal runs of add_block calls with equal
\* page number (page 1, page 2, page 1 gives three sections).
C11_NewSectionPerRun ==
    (StreamingMode /\ NoBuildYet) =>
        /\ Count("page_start", disk) - Len(SelectSeq(calls, IsAddPage))
               = Runs(AddBlockCalls)
        /\ (calls # <<>> /\ IsAddBlock(LastCall)
              /\ LastCall.n # before.current_page) =>
               disk = (IF before.header_written THEN before.disk ELSE <<HeaderTok>>)
                      \o (IF before.current_page # 0 THEN <<PageEndTok>> ELSE <<>>)
                      \o <<PageStartTok(LastCall.n)>>
                      \o render_block(LastCall.block)

C11_Witness ==
    /\ StreamingMode
    /\ Len(calls) = 3
    /\ \A i \in 1..3 : IsAddBlock(calls[i])
    /\ calls[1].n = 1 /\ calls[2].n = 2 /\ calls[3].n = 1
    /\ Count("page_start", disk) = 3
    /\ Count("page_end", disk) = 2

\* what each call contributes to the output, in call order
RECURSIVE ExpectedElements(_)
ExpectedElements(cs) ==
    IF cs = <<>> THEN <<>>
    ELSE (CASE IsAddBlock(Head(cs)) -> render_block(Head(cs).block)
            [] IsAddPage(Head(cs)) -> page_placeholder(render_body(Head(cs).page.blocks))
            [] OTHER -> <<>>)
         \o ExpectedElements(Tail(cs))

RECURSIVE ExpectedSections(_, _)
ExpectedSections(cs, open) ==
    IF cs = <<>> THEN <<>>
    ELSE CASE IsAddBlock(Head(cs)) ->
                (IF Head(cs).n # open THEN <<Head(cs).n>> ELSE <<>>)
                \o ExpectedSections(Tail(cs), Head(cs).n)
           [] IsAddPage(Head(cs)) ->
                <<Head(cs).n>> \o ExpectedSections(Tail(cs), open)
           [] OTHER -> ExpectedSections(Tail(cs), open)

SectionNumbers(toks) ==
    LET starts == SelectSeq(toks, IsPageStart)
    IN  [i \in DOMAIN starts |-> starts[i].n]

\* C12: in streaming mode the rendered blocks of the output are the
\* submitted non-empty blocks in call order, and the page sections stand in
\* the order in which their first block arrived.
C12_OutputFollowsCallOrder ==
    (StreamingMode /\ NoBuildBeforeLast) =>
        /\ SelectSeq(disk, IsElement) = ExpectedElements(calls)
        /\ SectionNumbers(disk) = ExpectedSections(calls, 0)

C12_Witness ==
    /\ StreamingMode
    /\ Len(calls) = 3
    /\ \A i \in 1..3 : IsAddBlock(calls[i])
    /\ calls[1].block = FX /\ calls[2].block = TW /\ calls[3].block = TA
    /\ calls[1].n = 2 /\ calls[3].n = 1
    /\ Len(SelectSeq(disk, IsElement)) = 2

SameSpan(i) ==
    \E p \in DOMAIN split.paragraphs :
        split.paragraphs[p].first <= i /\ i + 1 <= split.paragraphs[p].last

\* twice the median of the positive gaps, 0 when no gap is positive
StatedMedianTwice(lines) ==
    LET pos == positive(line_gaps(lines))
    IN  IF pos = <<>> THEN 0 ELSE np_median(pos).twice

StatedRule(l1, l2, m2) ==
    LET overlap_width == Min2(l1.x_max, l2.x_max) - Max2(l1.x_min, l2.x_min)
        union_width == Max2(l1.x_max, l2.x_max) - Min2(l1.x_min, l2.x_min)
    IN  /\ 4 * (l2.y_min - l1.y_max) < Max2(3 * m2, 4 * MinGapTolerance)
        /\ Abs(l2.x_min - l1.x_min) < IndentLimit
        /\ union_width > 0
        /\ 5 * overlap_width > 3 * union_width

\* C17: adjacent sorted lines i, i+1 lie in the same span exactly when
\* vertical_gap < max(1.5 * median_gap, 8), the indent difference is below 40
\* and the overlap ratio exceeds 0.6 (0 when the union width is not positive).
C17_MergeRuleIff ==
    (split.pc \in {"crop", "done"} /\ Len(split.lines) >= 2) =>
        \A i \in 1..(Len(split.lines) - 1) :
            SameSpan(i) <=> StatedRule(split.lines[i], split.lines[i + 1],
                                       StatedMedianTwice(split.lines))

ScenarioLines ==
    <<LineBox(0, 10, 0, 100), LineBox(12, 22, 0, 100), LineBox(60, 70, 0, 100)>>
Spans(rs) == [i \in DOMAIN rs |-> <<rs[i].first, rs[i].last>>]
\* spans (0,1) and (2,2) of the scenario, with lines counted from 1
ScenarioSpans == <<<<1, 2>>, <<3, 3>>>>

C19_EmptyInputNoRegion ==
    (split.pc = "done" /\ split.lines = <<>>) => split.results = <<>>

\* C19, amended: an empty sequence of line boxes yields exactly one region,
\* the whole image from 0 to its height.
C19_EmptyInputWholeImage ==
    (split.pc = "done" /\ split.lines = <<>>) =>
        /\ Len(split.results) = 1
        /\ split.results[1].y0 = 0
        /\ split.results[1].y1 = split.height

C19_Witness ==
    /\ split.pc = "done"
    /\ split.ocr_result = <<>>
    /\ Len(split.results) = 1

\* ------------------------------------------------ claims on the pipeline run
RunExited == run.pc \in {"done", "failed"}

\* C14: on every exit path of run, also when parsing or block emission
\* raises after the output file was opened, build has been called, the footer
\* is written and the file handle is released.
C14_BuildOnEveryExit ==
    (RunExited /\ header_written) =>
        /\ FinalizeCalls # {}
        /\ Count("footer", disk) = 1
        /\ ~file_handle

\* ------------------------------------------------ claims on the EPUB builder
Blank(block) == strip(block.content) = <<>>
AllBlank(blocks) == \A i \in DOMAIN blocks : Blank(blocks[i])
NoRenderableContent ==
    \A i \in DOMAIN calls : IsAddPage(calls[i]) => AllBlank(calls[i].page.blocks)

\* C15: finalizing a document that has no pages or no renderable content
\* never raises an error to the caller.
C15_EmptyFinalizeNeverRaises ==
    (calls # <<>> /\ LastCall.op = "build" /\ NoRenderableContent) =>
        LastCall.outcome = "returned"

LastChapter == epub.chapters[Len(epub.chapters)]

\* C20: a page gets the placeholder exactly when it has zero blocks or all
\* its blocks are empty or whitespace-only; a page with a non-empty block
\* keeps its content however short it is (pages whose text has no markup
\* character).
C20_PlaceholderIffNoContent ==
    (calls # <<>> /\ IsAddPage(LastCall)
        /\ well_formed(epub_body_parts(LastCall.page.blocks))) =>
        /\ (LastChapter.body = <<PlaceholderTok>>) <=> AllBlank(LastCall.page.blocks)
        /\ ~AllBlank(LastCall.page.blocks) =>
               LastChapter.body = epub_body_parts(LastCall.page.blocks)

\* ------------------------------------------------ claims on the progress hooks
ExpectedEvents(N) ==
    <<Event("on_start", N)>>
    \o [k \in 1..N |-> Event("on_page_processed", k)]
    \o <<Event("on_finish", 0)>>
Called(name) == \E i \in DOMAIN run.events : run.events[i].name = name

C21_FallbackIdempotent ==
    validator.pc = "twice" => validator.twice = validator.once

C21_Witness ==
    /\ validator.pc = "twice"
    /\ validator.pages # <<>>
    /\ \A i \in DOMAIN validator.pages : AllBlank(validator.pages[i].blocks)
    /\ validator.once # validator.pages
    /\ validator.twice = validator.once

\* ------------------------------------------------ claims on confidence gating
AboveTextThreshold(item) == item.conf > 30
AboveFormulaThreshold(item) == item.conf > 60
TextsOf(items) == [i \in DOMAIN items |-> items[i].text]
StatedText(paragraph) ==
    LET text == strip(join_space(TextsOf(
                    SelectSeq(paragraph.text_results, AboveTextThreshold))))
    IN  IF text = <<>> THEN <<>> ELSE <<TextBlock(text)>>
StatedFormulas(paragraph) ==
    LET accepted == SelectSeq(paragraph.formulas, AboveFormulaThreshold)
    IN  [i \in DOMAIN accepted |-> FormulaBlock(accepted[i].text)]
RECURSIVE StatedBlocks(_)
StatedBlocks(layout) ==
    IF layout = <<>> THEN <<>>
    ELSE StatedText(Head(layout)) \o StatedFormulas(Head(layout))
         \o StatedBlocks(Tail(layout))
IsCallbackOfPage(c) == c.op = "add_block" /\ c.n = run.idx
CallbackBlocks ==
    LET cs == SelectSeq(calls, IsCallbackOfPage)
    IN  [i \in DOMAIN cs |-> cs[i].block]

\* C22: a recognized line contributes to its paragraph's text exactly when
\* its confidence is above 0.3, a detected formula yields a FormulaBlock
\* exactly when its confidence is above 0.6, and an item at or below its
\* threshold produces no block and no block_callback call.
C22_ConfidenceGating ==
    run.pc = "parsing" =>
        /\ run.blocks = StatedBlocks(run.raw_pages[run.idx])
        /\ run.format = "html" => CallbackBlocks = SubSeq(run.blocks, 1, run.k)

C22_Witness ==
    /\ run.pc = "parsing"
    /\ run.format = "html"
    /\ run.k = Len(run.blocks)
    /\ run.k > 0
    /\ \E i \in DOMAIN run.raw_pages[run.idx] :
           \E j \in DOMAIN run.raw_pages[run.idx][i].text_results :
               run.raw_pages[run.idx][i].text_results[j].conf = 30

\* ------------------------------------------------ claims on non-streaming mode
AddedPages ==
    LET cs == SelectSeq(calls, IsAddPage)
    IN  [i \in DOMAIN cs |-> cs[i].page]
IsAddedPage(page) == page.blocks # <<TextBlock(NoContentText)>>

\* C23: in non-streaming mode no add_page call writes to the backing store;
\* build writes the whole document in one step, with the pages in the order
\* they were added.
C23_BatchWritesOnlyInBuild ==
    (~streaming /\ calls # <<>>) =>
        /\ buffer = <<>>
        /\ IsAddPage(LastCall) => disk = before.disk /\ exists = before.exists
        /\ SelectSeq(pages, IsAddedPage) = AddedPages
        /\ IsFinalize(LastCall) =>
               /\ disk = <<HeaderTok>> \o render_pages(pages) \o <<FooterTok>>
               /\ SectionNumbers(disk) = [i \in DOMAIN pages |-> pages[i].page_number]

C23_Witness ==
    /\ ~streaming
    /\ Len(calls) = 3
    /\ IsAddPage(calls[1])
    /\ IsAddPage(calls[2])
    /\ calls[1].n # calls[2].n
    /\ IsFinalize(calls[3])
    /\ before.disk = <<>>
    /\ SectionNumbers(disk) = <<calls[1].n, calls[2].n>>

\* ------------------------------------------------ claims on the written pages
RECURSIVE ProducedBlocks(_)
ProducedBlocks(layouts) ==
    IF layouts = <<>> THEN <<>>
    ELSE parse(Head(layouts)) \o ProducedBlocks(Tail(layouts))
RECURSIVE RenderedOnce(_)
RenderedOnce(blocks) ==
    IF blocks = <<>> THEN <<>>
    ELSE render_block(Head(blocks)) \o RenderedOnce(Tail(blocks))
IsContentElement(tok) == tok.t \in {"p", "formula"}
SectionsOf(k) == {i \in DOMAIN disk : disk[i] = PageStartTok(k)}

\* C24: in an HTML pipeline run each block the parser produces for a page is
\* written to the output exactly once, and each page number heads exactly one
\* page section of the output.
C24_EachBlockWrittenOnce ==
    (run.format = "html" /\ run.pc \in {"built", "done"}) =>
        /\ SelectSeq(disk, IsContentElement) = RenderedOnce(ProducedBlocks(run.raw_pages))
        /\ \A k \in 1..total_pages :
               parse(run.raw_pages[k]) # <<>> => Cardinality(SectionsOf(k)) = 1

Depth(i) ==
    Count("page_start", SubSeq(disk, 1, i)) - Count("page_end", SubSeq(disk, 1, i))

\* C25: in the streamed output page sections are never nested: for any
\* interleaving of add_block and add_page calls a page section is opened only
\* when no other page section is open.
C25_SectionsNeverNested ==
    StreamingMode =>
        \A i \in DOMAIN disk : IsPageStart(disk[i]) => Depth(i - 1) = 0

\* C26: for both output formats the block callback delivers every produced
\* block to the selected builder through add_block without raising.
C26_CallbackNeverRaises ==
    \A i \in DOMAIN calls : IsAddBlock(calls[i]) => calls[i].outcome = "returned"

\* ------------------------------------------------ claims on the live preview
\* C27: wherever the streaming preview is rendered during a conversion, the
\* content handed to it is a balanced document: the closing tags appended
\* while the footer is missing close every open element, an open page
\* section included.
C27_PreviewBalanced ==
    run.preview # <<>> =>
        /\ Balanced(run.preview)
        /\ \A i \in DOMAIN run.preview :
               IsPageStart(run.preview[i]) =>
                   Count("page_start", SubSeq(run.preview, 1, i - 1))
                       = Count("page_end", SubSeq(run.preview, 1, i - 1))

\* ------------------------------------------------ claims on the span bounds
LinesOf(p) == {split.lines[i] : i \in p.first..p.last}

\* C28: for every span the clusterer builds, y_start is the minimum y_min and
\* y_end is the maximum y_max over the span's lines, so the bounds contain
\* the interval of every line of the span.
C28_SpanBoundsContainLines ==
    (split.pc \in {"crop", "done"} /\ Len(split.lines) >= 2) =>
        \A i \in DOMAIN split.paragraphs :
            LET p == split.paragraphs[i]
            IN  /\ \A l \in LinesOf(p) : p.y_start <= l.y_min /\ l.y_max <= p.y_end
                /\ \E l \in LinesOf(p) : l.y_min = p.y_start
                /\ \E l \in LinesOf(p) : l.y_max = p.y_end

\* ------------------------------------------------ claims on the chapter order
PageNumbersOf(ps) == [i \in DOMAIN ps |-> ps[i].page_number]

\* C29: build keeps the chapters in the order their pages were added and
\* keeps their count, whatever the outcome of the per-chapter body checks:
\* spine and table of contents list one chapter per added page, in add order.
C29_ChaptersKeepAddOrder ==
    (calls # <<>> /\ IsFinalize(LastCall) /\ epub.written) =>
        /\ Len(epub.output) = Len(AddedPages)
        /\ PageNumbersOf(epub.output) = PageNumbersOf(AddedPages)

\* ------------------------------------------------ claims on the preview server
\* the path is the directory itself or a path below it
Inside(path, dir) ==
    LET parts == split_slash(path)
        dir_parts == split_slash(dir)
    IN  Len(dir_parts) <= Len(parts) /\ SubSeq(parts, 1, Len(dir_parts)) = dir_parts

\* C30: a GET or HEAD request is answered with a file's content or headers
\* only if the real path of the requested file lies inside the serve
\* directory; every request whose path resolves outside it, also into a
\* sibling directory whose name starts with the serve directory's name, is
\* answered with 403.
C30_OnlyInsideServeDirectory ==
    server.pc = "answered" =>
        /\ ~Inside(server.real_full_path, realpath(ServeDirectory)) => server.status = 403
        /\ server.status = 200 => Inside(realpath(server.served), realpath(ServeDirectory))
====
